---------------------------- MODULE Spec2Model ----------------------------
(***************************************************************************)
(* Model of cpsaveinfo (src/src/lib.rs): the packed-integer and prefixed-   *)
(* string readers, read_save_structure, and the byte accounting done in     *)
(* Model::update when a file is dropped.                                    *)
(*                                                                          *)
(* Number representation.  TLC's integers are 32-bit, the program's are     *)
(* not, so wide values are kept as limbs:                                   *)
(*   i64 (packed integers, magnitude < 2^35):                               *)
(*        [neg, hi, lo], value = (+/-)(hi * 2^27 + lo), lo < 2^27           *)
(*   u32 (tree_offset, data_offset, data_size, child_sum):                  *)
(*        [hi, lo],      value = hi * 2^16 + lo, hi, lo < 2^16              *)
(*   usize of a length (read_pstr): same [hi, lo] shape as i64 magnitudes   *)
(*   i32 (next_idx, child_idx): a plain integer, it fits.                   *)
(***************************************************************************)
EXTENDS Integers, Sequences, FiniteSets, TLC

VARIABLES
    value,            \* the integer handed to the encoder (round trip only)
    payload,          \* the input bytes (the dropped file, or the stream read)
    pos,              \* the Cursor's position in payload
    pc,               \* where the running call or task is
    overflow_checks,  \* build: TRUE = arithmetic overflow panics, FALSE = wraps
    usize_bits,       \* build: width of usize, 32 (wasm32) or 64
    ret,              \* value returned by the reader under test
    node_count,       \* read_save_structure: the decoded node_count (i64)
    nodes,            \* read_save_structure: the records pushed so far
    idx,              \* update: index of the enumerate() loops
    child_idx,        \* update: the walk's current link
    child_sum,        \* update: the walk's running sum (u32)
    child_bytes,      \* update: idx -> child_sum, as inserted
    txt,              \* update: the report lines pushed so far
    inner_text        \* what set_inner_text was last called with

vars == <<value, payload, pos, pc, overflow_checks, usize_bits, ret, node_count,
          nodes, idx, child_idx, child_sum, child_bytes, txt, inner_text>>

RECURSIVE Pow2(_)
Pow2(k) == IF k = 0 THEN 1 ELSE 2 * Pow2(k - 1)

RECURSIVE SeqsUpTo(_, _)
\* All sequences over S of length at most n.
SeqsUpTo(S, n) ==
    IF n = 0 THEN {<<>>}
    ELSE LET shorter == SeqsUpTo(S, n - 1)
         IN  shorter \cup {Append(s, x) : s \in {t \in shorter : Len(t) = n - 1}, x \in S}

(***************************************************************************)
(* Bit operations on naturals.                                              *)
(***************************************************************************)
RECURSIVE BitAnd(_, _)
BitAnd(x, y) ==
    IF x = 0 \/ y = 0 THEN 0
    ELSE (x % 2) * (y % 2) + 2 * BitAnd(x \div 2, y \div 2)

RECURSIVE BitOr(_, _)
BitOr(x, y) ==
    IF x = 0 THEN y
    ELSE IF y = 0 THEN x
    ELSE (IF x % 2 = 1 \/ y % 2 = 1 THEN 1 ELSE 0) + 2 * BitOr(x \div 2, y \div 2)

(***************************************************************************)
(* i64 values below 2^35 in magnitude.                                      *)
(***************************************************************************)
LimbBits == 27

I64Zero == [neg |-> FALSE, hi |-> 0, lo |-> 0]

\* (a as i64) for a u8 or a masked u8.
I64Of(a) == [neg |-> FALSE, hi |-> 0, lo |-> a]

\* x << k for a non-negative x below 2^8 and k <= 27.
I64Shl(a, k) ==
    [neg |-> FALSE,
     hi  |-> a \div Pow2(LimbBits - k),
     lo  |-> (a % Pow2(LimbBits - k)) * Pow2(k)]

\* x | y for non-negative x, y.
I64Or(x, y) == [neg |-> FALSE, hi |-> BitOr(x.hi, y.hi), lo |-> BitOr(x.lo, y.lo)]

\* -x : minus zero is zero.
I64Neg(x) == IF x.hi = 0 /\ x.lo = 0 THEN x ELSE [x EXCEPT !.neg = ~x.neg]

I64IsNeg(x) == x.neg

(***************************************************************************)
(* Reading from a stream s at position p.  A result is [ok, err, val, pos]: *)
(* Ok(v) with the position after the bytes consumed, or an error: "eof"     *)
(* (std::io::ErrorKind::UnexpectedEof), "invalid" (ErrorKind::InvalidData)  *)
(* or "panic" (the call does not return).                                   *)
(***************************************************************************)
Ok(v, q) == [ok |-> TRUE, err |-> "none", val |-> v, pos |-> q]
Err(kind, p) == [ok |-> FALSE, err |-> kind, val |-> <<>>, pos |-> p]
Fail(p) == Err("eof", p)

\* r? : the rest of the function runs on r's value, or r's error returns.
\* (r is bound as x so that it is evaluated once.)
and_then(r, rest(_)) ==
    CHOOSE y \in {IF x.ok THEN rest(x) ELSE Err(x.err, x.pos) : x \in {r}} : TRUE

\* The bytes still unread: Cursor clamps its position to the length.
Remaining(s, p) == IF p >= Len(s) THEN 0 ELSE Len(s) - p

read_u8(s, p) ==
    IF Remaining(s, p) >= 1
    THEN Ok(s[p + 1], p + 1)
    ELSE Fail(p)

\* read_exact of n bytes.
read_exact(s, p, n) ==
    IF Remaining(s, p) >= n
    THEN Ok(SubSeq(s, p + 1, p + n), p + n)
    ELSE Fail(p)

\* A mutant of third_byte_bits: the shift is 14, not 13.
third_byte_bits_shift14(a) == I64Shl(BitAnd(a, 127), 14)

\* (a & 0x7F) << 13, the third byte's contribution.
third_byte_bits(a) == I64Shl(BitAnd(a, 127), 13)

\* A mutant of fifth_byte_bits: the fifth byte is masked like the others.
fifth_byte_bits_masked(a) == I64Shl(BitAnd(a, 127), 27)

\* a << 27, the fifth byte's contribution: all eight bits.
fifth_byte_bits(a) == I64Shl(a, 27)

\* ReadCDPRExt::read_packed_int.
read_packed_int(s, p) ==
    LET r1 == read_u8(s, p) IN
    IF ~r1.ok THEN Fail(p) ELSE
    LET a1   == r1.val
        v1   == I64Of(BitAnd(a1, 63))
        sign == a1 >= 128
        done(v, q) == Ok(IF sign THEN I64Neg(v) ELSE v, q)
    IN
    IF BitAnd(a1, 64) = 0 THEN done(v1, r1.pos) ELSE
    LET r2 == read_u8(s, r1.pos) IN
    IF ~r2.ok THEN Fail(p) ELSE
    LET v2 == I64Or(v1, I64Shl(BitAnd(r2.val, 127), 6)) IN
    IF r2.val < 128 THEN done(v2, r2.pos) ELSE
    LET r3 == read_u8(s, r2.pos) IN
    IF ~r3.ok THEN Fail(p) ELSE
    LET v3 == I64Or(v2, third_byte_bits(r3.val)) IN
    IF r3.val < 128 THEN done(v3, r3.pos) ELSE
    LET r4 == read_u8(s, r3.pos) IN
    IF ~r4.ok THEN Fail(p) ELSE
    LET v4 == I64Or(v3, I64Shl(BitAnd(r4.val, 127), 20)) IN
    IF r4.val < 128 THEN done(v4, r4.pos) ELSE
    LET r5 == read_u8(s, r4.pos) IN
    IF ~r5.ok THEN Fail(p) ELSE
    done(I64Or(v4, fifth_byte_bits(r5.val)), r5.pos)


(***************************************************************************)
(* Text.  A String is modelled as its sequence of code points.              *)
(***************************************************************************)
IsCont(b) == b >= 128 /\ b <= 191

RECURSIVE utf8_from(_, _, _)
\* core::str::from_utf8 (run_utf8_validation) from byte i on, with the code
\* points decoded so far.
utf8_from(b, i, acc) ==
    IF i > Len(b) THEN Ok(acc, 0) ELSE
    LET first == b[i]
        bad   == Err("invalid", 0)
        at(k) == IF i + k <= Len(b) THEN b[i + k] ELSE -1
    IN
    IF first < 128 THEN utf8_from(b, i + 1, Append(acc, first))
    ELSE IF first >= 194 /\ first <= 223 THEN
        IF IsCont(at(1))
        THEN utf8_from(b, i + 2, Append(acc, (first - 192) * 64 + (at(1) - 128)))
        ELSE bad
    ELSE IF first >= 224 /\ first <= 239 THEN
        IF /\ \/ first = 224 /\ at(1) >= 160 /\ at(1) <= 191
              \/ first >= 225 /\ first <= 236 /\ IsCont(at(1))
              \/ first = 237 /\ at(1) >= 128 /\ at(1) <= 159
              \/ first >= 238 /\ IsCont(at(1))
           /\ IsCont(at(2))
        THEN utf8_from(b, i + 3, Append(acc, (first - 224) * 4096
                                             + (at(1) - 128) * 64 + (at(2) - 128)))
        ELSE bad
    ELSE IF first >= 240 /\ first <= 244 THEN
        IF /\ \/ first = 240 /\ at(1) >= 144 /\ at(1) <= 191
              \/ first >= 241 /\ first <= 243 /\ IsCont(at(1))
              \/ first = 244 /\ at(1) >= 128 /\ at(1) <= 143
           /\ IsCont(at(2))
           /\ IsCont(at(3))
        THEN utf8_from(b, i + 4, Append(acc, (first - 240) * 262144 + (at(1) - 128) * 4096
                                             + (at(2) - 128) * 64 + (at(3) - 128)))
        ELSE bad
    ELSE bad

\* String::from_utf8.
from_utf8(b) == utf8_from(b, 1, <<>>)

RECURSIVE utf16_from(_, _, _)
\* String::from_utf16 (char::decode_utf16) from unit i on.
utf16_from(u, i, acc) ==
    IF i > Len(u) THEN Ok(acc, 0) ELSE
    LET x   == u[i]
        bad == Err("invalid", 0)
    IN
    IF x < 55296 \/ x > 57343 THEN utf16_from(u, i + 1, Append(acc, x))
    ELSE IF x >= 56320 THEN bad
    ELSE IF i + 1 <= Len(u) /\ u[i + 1] >= 56320 /\ u[i + 1] <= 57343
         THEN utf16_from(u, i + 2,
                         Append(acc, 65536 + (x - 55296) * 1024 + (u[i + 1] - 56320)))
         ELSE bad

from_utf16(u) == utf16_from(u, 1, <<>>)

\* read_u16_into::<LE>: the units of 2n bytes.
units_le(b) == [k \in 1..(Len(b) \div 2) |-> b[2 * k - 1] + 256 * b[2 * k]]

(***************************************************************************)
(* usize.  A length is kept as [hi, lo] with value hi * 2^27 + lo.          *)
(***************************************************************************)
\* (m as usize) for a non-negative i64 m: the low 32 bits where usize has 32.
as_usize(m, bits) ==
    IF bits = 32 THEN [hi |-> m.hi % 32, lo |-> m.lo] ELSE [hi |-> m.hi, lo |-> m.lo]

\* Whether vec![0; n] of elements of `size` bytes panics with "capacity
\* overflow": the allocation would exceed isize::MAX bytes.
capacity_overflow(n, size, bits) ==
    bits = 32 /\ n.hi * size >= 16

\* Lines 52-54: the payload of n bytes as UTF-8, read at p.
read_utf8(s, p, n, bits) ==
    IF capacity_overflow(n, 1, bits) THEN Err("panic", p)
    ELSE IF n.hi > 0 THEN Err("eof", p)
    ELSE and_then(read_exact(s, p, n.lo), LAMBDA r :
         and_then([from_utf8(r.val) EXCEPT !.pos = r.pos], LAMBDA t :
             Ok(t.val, r.pos)))

\* Lines 57-59: the payload of n 16-bit units as UTF-16, read at p.
read_utf16(s, p, n, bits) ==
    IF capacity_overflow(n, 2, bits) THEN Err("panic", p)
    ELSE IF n.hi > 0 THEN Err("eof", p)
    ELSE and_then(read_exact(s, p, 2 * n.lo), LAMBDA r :
         and_then([from_utf16(units_le(r.val)) EXCEPT !.pos = r.pos],
                  LAMBDA t : Ok(t.val, r.pos)))

\* ReadCDPRExt::read_pstr.  -count cannot overflow: |count| < 2^35.  A
\* length of 2^27 bytes or more (n.hi > 0) exceeds every stream modelled, so
\* the read is short.  An allocation that fails for lack of memory (an abort)
\* is not modelled.
read_pstr(s, p, bits) ==
    and_then(read_packed_int(s, p), LAMBDA count :
        IF I64IsNeg(count.val)
        THEN read_utf8(s, count.pos, as_usize(count.val, bits), bits)
        ELSE read_utf16(s, count.pos, as_usize(count.val, bits), bits))

(***************************************************************************)
(* u32 and i32.                                                             *)
(***************************************************************************)
U32Zero == [hi |-> 0, lo |-> 0]

\* read_u32::<LE>.
read_u32(s, p) ==
    LET r == read_exact(s, p, 4) IN
    IF ~r.ok THEN Fail(p)
    ELSE Ok([hi |-> r.val[3] + 256 * r.val[4], lo |-> r.val[1] + 256 * r.val[2]], r.pos)

\* read_i32::<LE>: two's complement.
read_i32(s, p) ==
    LET r == read_exact(s, p, 4) IN
    IF ~r.ok THEN Fail(p)
    ELSE Ok((IF r.val[4] >= 128 THEN r.val[4] - 256 ELSE r.val[4]) * 16777216
            + r.val[3] * 65536 + r.val[2] * 256 + r.val[1], r.pos)

\* a + b in u32: the wrapped sum, and whether it overflowed.
u32_add(a, b) ==
    LET lo == a.lo + b.lo
        hi == a.hi + b.hi + lo \div 65536
    IN  [val |-> [hi |-> hi % 65536, lo |-> lo % 65536], overflow |-> hi >= 65536]

\* a - b in u32: the wrapped difference, and whether it overflowed.
u32_sub(a, b) ==
    LET lo == a.lo - b.lo
        hi == a.hi - b.hi + lo \div 65536
    IN  [val |-> [hi |-> hi % 65536, lo |-> lo % 65536], overflow |-> hi < 0]

(***************************************************************************)
(* read_save_structure, in the steps of its control flow.                   *)
(***************************************************************************)
ENOD == <<69, 78, 79, 68>>
EDON == <<69, 68, 79, 78>>

\* A mutant of seek_start: only the low 16 bits of the offset are used.
seek_start_low16(s, u) == IF u.lo > Len(s) THEN Len(s) ELSE u.lo

\* Cursor after seek(SeekFrom::Start(u)) for a u32 u: reads start at
\* min(position, length).
seek_start(s, u) == IF u.hi > 0 \/ u.lo > Len(s) THEN Len(s) ELSE u.lo

\* Lines 80-94: the footer and the two signatures.  Ok leaves the cursor
\* after EDON; every error is the function's `return None`.
locate(s) ==
    IF Len(s) < 8 THEN Err("seek", 0) ELSE
    LET off == read_u32(s, Len(s) - 8)
        sig == read_exact(s, off.pos, 4)
    IN
    IF sig.val # ENOD THEN Err("sig", sig.pos) ELSE
    LET p   == seek_start(s, off.val)
        sg2 == read_exact(s, p, 4)
    IN
    IF ~sg2.ok THEN Err("eof", p)
    ELSE IF sg2.val # EDON THEN Err("sig", sg2.pos)
    ELSE Ok(off.val, sg2.pos)

\* Lines 100-106: one record.
read_node(s, p, bits) ==
    and_then(read_pstr(s, p, bits), LAMBDA name :
    and_then(read_i32(s, name.pos), LAMBDA next_idx :
    and_then(read_i32(s, next_idx.pos), LAMBDA c_idx :
    and_then(read_u32(s, c_idx.pos), LAMBDA data_offset :
    and_then(read_u32(s, data_offset.pos), LAMBDA data_size :
        Ok([name |-> name.val, next_idx |-> next_idx.val, child_idx |-> c_idx.val,
            data_offset |-> data_offset.val, data_size |-> data_size.val],
           data_size.pos))))))

\* The loop condition of `for _ in 0..node_count` after n iterations.
more_nodes(n, count) == ~count.neg /\ (count.hi > 0 \/ n < count.lo)

\* Line 152, save.nodes[child_idx as usize]: a negative i32 becomes a usize
\* of 2^31 or more, beyond any length, so the index is in bounds exactly
\* when 0 <= child_idx < len.
in_bounds(i, len) == i >= 0 /\ i < len

\* A mutant of next_link: the walk descends to the child's own first child.
next_link_descend(child) == child.child_idx

\* Line 154: the walk goes on with the child's next sibling.
next_link(child) == child.next_idx

\* A panic unwinds the task: nothing more runs and nothing is displayed.
Panics == {"panic: capacity overflow", "panic: index out of bounds",
           "panic: add with overflow", "panic: subtract with overflow"}

TaskVars == <<idx, child_idx, child_sum, child_bytes, txt>>
Build == <<overflow_checks, usize_bits>>

Locate ==
    /\ pc = "start"
    /\ \E r \in {locate(payload)} :
       /\ pos' = r.pos
       /\ pc' = IF r.ok THEN "count" ELSE "fail"
       /\ ret' = IF r.ok THEN ret ELSE Err(r.err, r.pos)
    /\ UNCHANGED <<value, payload, Build, node_count, nodes, TaskVars, inner_text>>

ReadNodeCount ==
    /\ pc = "count"
    /\ \E r \in {read_packed_int(payload, pos)} :
       /\ pos' = r.pos
       /\ pc' = IF r.ok THEN "nodes" ELSE "fail"
       /\ node_count' = IF r.ok THEN r.val ELSE node_count
       /\ ret' = IF r.ok THEN ret ELSE Err(r.err, r.pos)
    /\ UNCHANGED <<value, payload, Build, nodes, TaskVars, inner_text>>

\* One iteration of the loop of lines 99-108.  On an error the function
\* returns None and the nodes pushed so far are dropped.
ReadNode ==
    /\ pc = "nodes"
    /\ more_nodes(Len(nodes), node_count)
    /\ \E r \in {read_node(payload, pos, usize_bits)} :
       /\ pos' = r.pos
       /\ pc' = IF r.ok THEN "nodes"
                ELSE IF r.err = "panic" THEN "panic: capacity overflow" ELSE "fail"
       /\ nodes' = IF r.ok THEN Append(nodes, r.val) ELSE <<>>
       /\ ret' = IF r.ok THEN ret ELSE Err(r.err, r.pos)
    /\ UNCHANGED <<value, payload, Build, node_count, TaskVars, inner_text>>

\* Lines 109-112 and 145-150: Some(save) is returned and the accounting
\* starts with the first node.
Loaded ==
    /\ pc = "nodes"
    /\ ~more_nodes(Len(nodes), node_count)
    /\ ret' = Ok(nodes, pos)
    /\ pc' = "walk"
    /\ idx' = 0
    /\ child_idx' = IF Len(nodes) > 0 THEN nodes[1].child_idx ELSE -1
    /\ child_sum' = U32Zero
    /\ child_bytes' = <<>>
    /\ txt' = <<>>
    /\ UNCHANGED <<value, payload, pos, Build, node_count, nodes, inner_text>>

\* Lines 151-152: the loop goes on and the link is used as an index.
WalkIndex ==
    /\ pc = "walk"
    /\ idx < Len(nodes)
    /\ child_idx # -1
    /\ pc' = IF in_bounds(child_idx, Len(nodes)) THEN "child"
             ELSE "panic: index out of bounds"
    /\ UNCHANGED <<value, payload, pos, Build, ret, node_count, nodes, TaskVars,
                   inner_text>>

\* Lines 153-154: the child's size is added and the walk moves on.
WalkAdd ==
    /\ pc = "child"
    /\ \E child \in {nodes[child_idx + 1]} :
       \E sum \in {u32_add(child_sum, child.data_size)} :
          IF sum.overflow /\ overflow_checks
          THEN /\ pc' = "panic: add with overflow"
               /\ UNCHANGED <<child_idx, child_sum>>
          ELSE /\ pc' = "walk"
               /\ child_sum' = sum.val
               /\ child_idx' = next_link(child)
    /\ UNCHANGED <<value, payload, pos, Build, ret, node_count, nodes, idx,
                   child_bytes, txt, inner_text>>

\* Line 156, and lines 149-150 for the next node.  The map's keys are
\* 0, 1, ... in order, so it is kept as the sequence of its values.
WalkEnd ==
    /\ pc = "walk"
    /\ idx < Len(nodes)
    /\ child_idx = -1
    /\ child_bytes' = Append(child_bytes, child_sum)
    /\ idx' = idx + 1
    /\ child_idx' = IF idx + 1 < Len(nodes) THEN nodes[idx + 2].child_idx ELSE -1
    /\ child_sum' = U32Zero
    /\ UNCHANGED <<value, payload, pos, pc, Build, ret, node_count, nodes, txt,
                   inner_text>>

\* The first loop is over; the second starts (line 159).
WalkDone ==
    /\ pc = "walk"
    /\ idx = Len(nodes)
    /\ pc' = "report"
    /\ idx' = 0
    /\ UNCHANGED <<value, payload, pos, Build, ret, node_count, nodes, child_idx,
                   child_sum, child_bytes, txt, inner_text>>

\* Lines 160-163: one line of the report, kept as the three values that
\* are formatted into it.
ReportLine ==
    /\ pc = "report"
    /\ idx < Len(nodes)
    /\ LET node        == nodes[idx + 1]
           total_bytes == node.data_size
           own         == u32_sub(total_bytes, child_bytes[idx + 1])
       IN  IF own.overflow /\ overflow_checks
           THEN /\ pc' = "panic: subtract with overflow"
                /\ UNCHANGED <<idx, txt>>
           ELSE /\ pc' = pc
                /\ txt' = Append(txt, [name |-> node.name, own_bytes |-> own.val,
                                       total_bytes |-> total_bytes])
                /\ idx' = idx + 1
    /\ UNCHANGED <<value, payload, pos, Build, ret, node_count, nodes, child_idx,
                   child_sum, child_bytes, inner_text>>

\* Line 165.
ShowReport ==
    /\ pc = "report"
    /\ idx = Len(nodes)
    /\ inner_text' = [msg |-> "report", lines |-> txt]
    /\ pc' = "done"
    /\ UNCHANGED <<value, payload, pos, Build, ret, node_count, nodes, TaskVars>>

\* Line 168.
ShowFailure ==
    /\ pc = "fail"
    /\ inner_text' = [msg |-> "Could not load save", lines |-> <<>>]
    /\ pc' = "done"
    /\ UNCHANGED <<value, payload, pos, Build, ret, node_count, nodes, TaskVars>>

Next ==
    \/ Locate
    \/ ReadNodeCount
    \/ ReadNode
    \/ Loaded
    \/ WalkIndex
    \/ WalkAdd
    \/ WalkEnd
    \/ WalkDone
    \/ ReportLine
    \/ ShowReport
    \/ ShowFailure

(***************************************************************************)
(* State common to every specification: the build, and a task not started.  *)
(***************************************************************************)
BuildInit ==
    /\ overflow_checks \in BOOLEAN
    /\ usize_bits \in {32, 64}

TaskInit ==
    /\ pos = 0
    /\ ret = Fail(0)
    /\ node_count = I64Zero
    /\ nodes = <<>>
    /\ idx = 0
    /\ child_idx = -1
    /\ child_sum = U32Zero
    /\ child_bytes = <<>>
    /\ txt = <<>>
    /\ inner_text = [msg |-> "", lines |-> <<>>]

(***************************************************************************)
(* SpecPacked: read_packed_int applied to every stream of at most           *)
(* MaxIntBytes bytes drawn from IntBytePool.                                *)
(***************************************************************************)
MaxIntBytes == 5

\* 0x00 0x25 0x40 0x7F 0x80 0xC1 0xFF: every combination of the sign and
\* continuation bits, with empty, mixed and full value bits.
IntBytePool == {0, 37, 64, 127, 128, 193, 255}

InitPacked ==
    /\ value = I64Zero
    /\ payload \in SeqsUpTo(IntBytePool, MaxIntBytes)
    /\ pc = "call"
    /\ overflow_checks = FALSE
    /\ usize_bits = 32
    /\ TaskInit

CallReadPackedInt ==
    /\ pc = "call"
    /\ ret' = read_packed_int(payload, 0)
    /\ pos' = ret'.pos
    /\ pc' = "returned"
    /\ UNCHANGED <<value, payload, overflow_checks, usize_bits, node_count, nodes,
                   idx, child_idx, child_sum, child_bytes, txt, inner_text>>

NextPacked == CallReadPackedInt

SpecPacked == InitPacked /\ [][NextPacked]_vars

\* The scheme of the packed integer, in arithmetic on the stream's bytes.
PackedByte(k) == IF k <= Len(payload) THEN payload[k] ELSE 0
PackedCont1 == Len(payload) >= 1 /\ (PackedByte(1) \div 64) % 2 = 1
PackedCont2 == PackedCont1 /\ Len(payload) >= 2 /\ PackedByte(2) >= 128
PackedCont3 == PackedCont2 /\ Len(payload) >= 3 /\ PackedByte(3) >= 128
PackedCont4 == PackedCont3 /\ Len(payload) >= 4 /\ PackedByte(4) >= 128
PackedWidth ==
    1 + (IF PackedCont1 THEN 1 ELSE 0) + (IF PackedCont2 THEN 1 ELSE 0)
      + (IF PackedCont3 THEN 1 ELSE 0) + (IF PackedCont4 THEN 1 ELSE 0)
PackedLow ==
    (PackedByte(1) % 64)
    + (IF PackedCont1 THEN (PackedByte(2) % 128) * 64 ELSE 0)
    + (IF PackedCont2 THEN (PackedByte(3) % 128) * 8192 ELSE 0)
    + (IF PackedCont3 THEN (PackedByte(4) % 128) * 1048576 ELSE 0)
PackedHigh == IF PackedCont4 THEN PackedByte(5) ELSE 0

\* C6: read_packed_int succeeds exactly when every required byte is present;
\* it then consumes the 1 to 5 required bytes and returns the magnitude
\* low6 | b2<<6 | b3<<13 | b4<<20 | b5<<27 (below 2^35), negated iff bit 0x80
\* of the first byte is set; otherwise it fails without a value.
C6_PackedIntScheme ==
    pc = "returned" =>
        /\ ret.ok <=> Len(payload) >= PackedWidth
        /\ ret.ok =>
            /\ PackedWidth \in 1..5
            /\ ret.pos = PackedWidth
            /\ ret.val.lo = PackedLow
            /\ ret.val.hi = PackedHigh
            /\ ret.val.lo < Pow2(27) /\ ret.val.hi < 256
            /\ ret.val.neg <=> (PackedByte(1) >= 128 /\ PackedLow + PackedHigh > 0)
        /\ ~ret.ok => ret.val = <<>>

\* A five-byte negative packed integer has been decoded.
C6_Witness ==
    /\ pc = "returned" /\ ret.ok /\ ret.pos = 5
    /\ ret.val.neg /\ ret.val.hi = 255 /\ ret.val.lo > 1048576

(***************************************************************************)
(* SpecRoundTrip: a value is encoded as section 4.1 describes the inverse   *)
(* (6/7/7/7/8-bit groups, least significant first, in the fewest bytes) and *)
(* read back by read_packed_int.                                            *)
(***************************************************************************)
\* How many values next to each end of a group's range are drawn.
GroupEdge == 1

GroupVals(max) == {g \in 0..max : g <= GroupEdge \/ g >= max - GroupEdge}

\* The encoder of the packed integer: the repository has none, the format
\* description gives it.
encode_packed_int(v) ==
    LET g1 == v.lo % 64
        g2 == (v.lo \div 64) % 128
        g3 == (v.lo \div 8192) % 128
        g4 == (v.lo \div 1048576) % 128
        g5 == v.hi
        n  == IF g5 > 0 THEN 5 ELSE IF g4 > 0 THEN 4 ELSE IF g3 > 0 THEN 3
              ELSE IF g2 > 0 THEN 2 ELSE 1
        b1 == g1 + (IF n > 1 THEN 64 ELSE 0) + (IF v.neg THEN 128 ELSE 0)
        b2 == g2 + (IF n > 2 THEN 128 ELSE 0)
        b3 == g3 + (IF n > 3 THEN 128 ELSE 0)
        b4 == g4 + (IF n > 4 THEN 128 ELSE 0)
    IN  SubSeq(<<b1, b2, b3, b4, g5>>, 1, n)

InitRoundTrip ==
    /\ \E neg \in BOOLEAN, a \in GroupVals(63), b \in GroupVals(127),
          c \in GroupVals(127), d \in GroupVals(127), e \in GroupVals(255) :
          LET lo == a + 64 * b + 8192 * c + 1048576 * d
          IN  value = [neg |-> neg /\ (lo + e > 0), hi |-> e, lo |-> lo]
    /\ payload = <<>>
    /\ pc = "encode"
    /\ overflow_checks = FALSE
    /\ usize_bits = 32
    /\ TaskInit

EncodeValue ==
    /\ pc = "encode"
    /\ payload' = encode_packed_int(value)
    /\ pc' = "call"
    /\ UNCHANGED <<value, pos, overflow_checks, usize_bits, ret, node_count, nodes,
                   idx, child_idx, child_sum, child_bytes, txt, inner_text>>

NextRoundTrip == EncodeValue \/ CallReadPackedInt

SpecRoundTrip == InitRoundTrip /\ [][NextRoundTrip]_vars

\* C7: reading the encoding of v gives back v, and consumes all of it.
C7_RoundTrip ==
    pc = "returned" => ret.ok /\ ret.val = value /\ ret.pos = Len(payload)

\* A negative value that needs all five bytes has made the round trip.
C7_Witness ==
    /\ pc = "returned" /\ Len(payload) = 5
    /\ value.neg /\ value.hi = 255 /\ value.lo = 134217727

(***************************************************************************)
(* SpecPstr: read_pstr applied to a length prefix followed by at most       *)
(* MaxText bytes drawn from TextBytePool, on both widths of usize.          *)
(***************************************************************************)
MaxText == 4

\* 'a', NUL, 0xC3 0xA9 (the UTF-8 of U+00E9), 0xD8 and 0xDC (the high bytes
\* of a UTF-16 surrogate pair).
TextBytePool == {97, 0, 195, 169, 216, 220}

\* Length prefixes: none, 0..3, -0, -1..-3, -5, an unfinished one, and the
\* five-byte ones for +/-2^32, -(2^32 + 1), +/-2^31 and 2^30.
CountEncodings ==
    { <<>>, <<0>>, <<1>>, <<2>>, <<3>>, <<128>>, <<129>>, <<130>>, <<131>>, <<133>>,
      <<64>>,
      <<192, 128, 128, 128, 32>>, <<64, 128, 128, 128, 32>>, <<193, 128, 128, 128, 32>>,
      <<64, 128, 128, 128, 16>>, <<192, 128, 128, 128, 16>>, <<64, 128, 128, 128, 8>> }

InitPstr ==
    /\ value = I64Zero
    /\ \E c \in CountEncodings, body \in SeqsUpTo(TextBytePool, MaxText) :
          payload = c \o body
    /\ pc = "call"
    /\ overflow_checks = FALSE
    /\ usize_bits \in {32, 64}
    /\ TaskInit

CallReadPstr ==
    /\ pc = "call"
    /\ ret' = read_pstr(payload, 0, usize_bits)
    /\ pos' = ret'.pos
    /\ pc' = IF ret'.err = "panic" THEN "panic: capacity overflow" ELSE "returned"
    /\ UNCHANGED <<value, payload, overflow_checks, usize_bits, node_count, nodes,
                   idx, child_idx, child_sum, child_bytes, txt, inner_text>>

NextPstr == CallReadPstr

SpecPstr == InitPstr /\ [][NextPstr]_vars

\* The length prefix of the stream, and the payload length it asks for.
PstrCount == read_packed_int(payload, 0)
PstrUnit == IF PstrCount.val.neg THEN 1 ELSE 2
\* The payload bytes required fit the rest of the stream.
PstrFits ==
    /\ PstrCount.val.hi = 0
    /\ PstrCount.val.lo * PstrUnit <= Len(payload) - PstrCount.pos

\* The payload the prefix asks for, decoded in the encoding it selects.
PstrText ==
    LET b == SubSeq(payload, PstrCount.pos + 1,
                    PstrCount.pos + PstrCount.val.lo * PstrUnit)
    IN  IF PstrCount.val.neg THEN from_utf8(b) ELSE from_utf16(units_le(b))

\* C8: read_pstr consumes the prefix and exactly -count bytes (count < 0) or
\* 2 * count bytes (count >= 0), and returns no string when fewer bytes
\* remain or when the payload is not valid text.
C8_PstrLength ==
    (pc \in {"returned", "panic: capacity overflow"} /\ PstrCount.ok) =>
        /\ ret.ok => /\ PstrCount.val.hi = 0
                     /\ ret.pos = PstrCount.pos + PstrCount.val.lo * PstrUnit
        /\ ~PstrFits => ~ret.ok
        /\ (PstrFits /\ ~PstrText.ok) => ~ret.ok
        /\ (PstrFits /\ PstrText.ok) => (ret.ok /\ ret.val = PstrText.val)

\* The same on a 64-bit usize only, where the length is not truncated.
C8_PstrLength64 == usize_bits = 64 => C8_PstrLength

(***************************************************************************)
(* Input files, laid out as the format is described: a trailer             *)
(* [u32 tree_offset]["ENOD"], and at tree_offset                            *)
(* ["EDON"][node_count][records].                                           *)
(***************************************************************************)
i32_bytes(x) ==
    <<x % 256, (x \div 256) % 256, (x \div 65536) % 256, (x \div 16777216) % 256>>

u32_bytes(u) == <<u.lo % 256, u.lo \div 256, u.hi % 256, u.hi \div 256>>

U32Of(n) == [hi |-> 0, lo |-> n]

\* A record (name is the encoded prefixed string).
record_bytes(r) ==
    r.name \o i32_bytes(r.next_idx) \o i32_bytes(r.child_idx)
           \o u32_bytes(U32Zero) \o u32_bytes(r.data_size)

RECURSIVE records_bytes(_)
records_bytes(rs) ==
    IF rs = <<>> THEN <<>> ELSE record_bytes(Head(rs)) \o records_bytes(Tail(rs))

\* pad bytes, then the tree, then the trailer.
file_bytes(pad, marker, count, body, offset, sig) ==
    pad \o marker \o count \o body \o u32_bytes(offset) \o sig

\* The name of node i: "a", "b", ... as UTF-8 for even i, UTF-16 for odd i.
name_bytes(i) == IF i % 2 = 0 THEN <<129, 97 + i>> ELSE <<1, 97 + i, 0>>

(***************************************************************************)
(* Spec: the whole task, on                                                 *)
(*  - TreeFiles: well-formed files of at most MaxNodes nodes whose links    *)
(*    point at the following node or nowhere (so every walk ends), the      *)
(*    last node's possibly out of range (n, or -2);                         *)
(*  - BrokenFiles: files with a wrong footer, signature, offset or count,   *)
(*    or cut short.                                                         *)
(***************************************************************************)
MaxNodes == 3

\* 20, 100 and 2^32 - 1.
Sizes == {U32Of(20), U32Of(100), [hi |-> 65535, lo |-> 65535]}

\* Node i of n: no sibling, or the following node (for the last node that
\* is n, out of range).
NextChoices(i, n) == {-1, i + 1}
\* Node i of n: no child, or the following node (for the last node, -2).
ChildChoices(i, n) == {-1, IF i + 1 < n THEN i + 1 ELSE -2}

RECURSIVE ForwardTrees(_, _)
\* The first k records of a file of n.
ForwardTrees(k, n) ==
    IF k = 0 THEN {<<>>}
    ELSE {Append(t, [name |-> name_bytes(k - 1), next_idx |-> nx, child_idx |-> ch,
                     data_size |-> sz]) :
            t \in ForwardTrees(k - 1, n), nx \in NextChoices(k - 1, n),
            ch \in ChildChoices(k - 1, n), sz \in Sizes}

TreeFiles ==
    UNION {{file_bytes(<<>>, EDON, <<n>>, records_bytes(t), U32Zero, ENOD) :
                t \in ForwardTrees(n, n)} : n \in 0..MaxNodes}

\* A leaf record of 20 bytes, under each kind of name: UTF-8, UTF-16, and
\* the lengths -2^32 and -2^31 that do not fit a 32-bit usize.
Leaf(name) == [name |-> name, next_idx |-> -1, child_idx |-> -1, data_size |-> U32Of(20)]
LeafNames == {name_bytes(0), name_bytes(1), <<192, 128, 128, 128, 32>>,
              <<192, 128, 128, 128, 16>>}

RECURSIVE Leaves(_)
Leaves(k) ==
    IF k = 0 THEN {<<>>}
    ELSE {Append(t, Leaf(name_bytes(k - 1))) : t \in Leaves(k - 1)}

\* How many bytes at most are cut off the end of the records.
MaxCut == 18

\* node_count as written: 0..3, -1, -2, -0, and missing.
CountBytes == {<<0>>, <<1>>, <<2>>, <<3>>, <<129>>, <<130>>, <<128>>, <<>>}

\* Files whose records stop early or whose node_count does not match them.
CutFiles ==
    {file_bytes(<<>>, EDON, c, SubSeq(b, 1, Len(b) - cut), U32Zero, ENOD) :
        c \in CountBytes,
        b \in {records_bytes(t) : t \in UNION {Leaves(k) : k \in 0..MaxNodes}},
        cut \in 0..MaxCut}

\* Files of one record under each kind of name.
NameFiles ==
    {file_bytes(<<>>, EDON, <<1>>, record_bytes(Leaf(nm)), U32Zero, ENOD) :
        nm \in LeafNames}

\* How many bytes at most precede the tree.
MaxPad == 2

\* Offsets written in the footer of a file whose tree is at `at` and whose
\* length is len: right, one off, the footer, three bytes before the end,
\* the end, past the end, 2^16 too far, and 2^32 - 1.
OffsetChoices(at, len) ==
    {U32Of(at), U32Of(at + 1), U32Of(len - 8), U32Of(len - 3), U32Of(len),
     U32Of(len + 8), [hi |-> 1, lo |-> at], [hi |-> 65535, lo |-> 65535]}

\* Files with a wrong footer signature, tree signature or tree offset.
LocatorFiles ==
    UNION {{file_bytes(pad, marker, <<1>>, record_bytes(Leaf(name_bytes(0))), off, sig) :
                marker \in {EDON, ENOD, <<69, 68, 79, 79>>},
                sig \in {ENOD, EDON, <<69, 78, 79, 69>>},
                off \in OffsetChoices(Len(pad),
                            Len(pad) + 13 + Len(record_bytes(Leaf(name_bytes(0)))))} :
           pad \in {[k \in 1..n |-> 7] : n \in 0..MaxPad}}

\* Files shorter than a footer: the last bytes of <<0, 0, 0, 0>> \o ENOD.
ShortFiles == {SubSeq(<<0, 0, 0, 0>> \o ENOD, 9 - n, 8) : n \in 0..7}

BrokenFiles == CutFiles \cup NameFiles \cup LocatorFiles \cup ShortFiles

Init ==
    /\ value = I64Zero
    /\ \/ payload \in TreeFiles /\ overflow_checks \in BOOLEAN /\ usize_bits = 32
       \/ payload \in BrokenFiles /\ BuildInit
    /\ pc = "start"
    /\ TaskInit

Spec == Init /\ [][Next]_vars

(***************************************************************************)
(* FairSpec: the task, which runs to its end once started, on files of at   *)
(* most MaxCycleNodes nodes whose links are any of -1 and the nodes, so     *)
(* that they may form cycles, with sizes 0 and 2^31.                        *)
(***************************************************************************)
MaxCycleNodes == 2

CycleSizes == {U32Zero, [hi |-> 32768, lo |-> 0]}

RECURSIVE LinkedTrees(_, _)
LinkedTrees(k, n) ==
    IF k = 0 THEN {<<>>}
    ELSE {Append(t, [name |-> name_bytes(k - 1), next_idx |-> nx, child_idx |-> ch,
                     data_size |-> sz]) :
            t \in LinkedTrees(k - 1, n), nx \in -1..(n - 1), ch \in -1..(n - 1),
            sz \in CycleSizes}

LinkedFiles ==
    UNION {{file_bytes(<<>>, EDON, <<n>>, records_bytes(t), U32Zero, sig) :
                t \in LinkedTrees(n, n), sig \in {ENOD, EDON}} : n \in 0..MaxCycleNodes}

InitLinked ==
    /\ value = I64Zero
    /\ payload \in LinkedFiles
    /\ overflow_checks \in BOOLEAN
    /\ usize_bits = 32
    /\ pc = "start"
    /\ TaskInit

FairSpec == InitLinked /\ [][Next]_vars /\ WF_vars(Next)

(***************************************************************************)
(* What the claims speak of, read off the decoded nodes.                    *)
(***************************************************************************)
\* The decode has returned Some(save).
DecodeSucceeded == ret.ok /\ pc \in {"walk", "child", "report", "done"} \cup Panics

LinkValid(l, n) == l = -1 \/ (l >= 0 /\ l < n)

AllLinksValid ==
    \A k \in 1..Len(nodes) :
        LinkValid(nodes[k].next_idx, Len(nodes)) /\ LinkValid(nodes[k].child_idx, Len(nodes))

RECURSIVE Chain(_, _)
\* The indices (from 1) of the nodes on the next_idx chain that starts at
\* link l, up to the sentinel, an out-of-range link or `fuel` nodes.
Chain(l, fuel) ==
    IF fuel = 0 \/ l = -1 \/ ~LinkValid(l, Len(nodes)) THEN <<>>
    ELSE <<l + 1>> \o Chain(nodes[l + 1].next_idx, fuel - 1)

\* The immediate children of node k.
Children(k) == Chain(nodes[k].child_idx, Len(nodes) + 1)

\* Every chain of children reaches the sentinel.
ChainsEnd == \A k \in 1..Len(nodes) : Len(Children(k)) <= Len(nodes)

RECURSIVE SumHi(_)
SumHi(c) == IF c = <<>> THEN 0 ELSE nodes[Head(c)].data_size.hi + SumHi(Tail(c))
RECURSIVE SumLo(_)
SumLo(c) == IF c = <<>> THEN 0 ELSE nodes[Head(c)].data_size.lo + SumLo(Tail(c))

\* The sum of the children's data_size as an integer: hi * 2^16 + lo, with
\* hi not bounded by 2^16.
ChildTotal(k) ==
    [hi |-> SumHi(Children(k)) + SumLo(Children(k)) \div 65536,
     lo |-> SumLo(Children(k)) % 65536]

\* a + b = c, for u32 a and integers b, c in limbs.
AddsUpTo(a, b, c) ==
    /\ (a.lo + b.lo) % 65536 = c.lo
    /\ a.hi + b.hi + (a.lo + b.lo) \div 65536 = c.hi

\* The children of node k sum to no more than its data_size.
Consistent(k) ==
    \/ ChildTotal(k).hi < nodes[k].data_size.hi
    \/ /\ ChildTotal(k).hi = nodes[k].data_size.hi
       /\ ChildTotal(k).lo <= nodes[k].data_size.lo

\* C1: no link outside -1 and 0..N-1 is ever used as an index; a file with
\* such a link is reported as malformed, not accounted.
C1_LinksChecked ==
    /\ pc # "panic: index out of bounds"
    /\ (DecodeSucceeded /\ ~AllLinksValid) => ~(pc = "done" /\ inner_text.msg = "report")

\* C2: a node whose children sum to more than its data_size is flagged: no
\* sum and no difference is computed by wrapping, no plain report line is
\* written for such a node, and the report is not aborted.
C2_InconsistencySurfaced ==
    (DecodeSucceeded /\ AllLinksValid /\ ChainsEnd) =>
        /\ pc \notin {"panic: add with overflow", "panic: subtract with overflow"}
        /\ \A k \in 1..Len(child_bytes) : child_bytes[k] = ChildTotal(k)
        /\ \A k \in 1..Len(txt) : Consistent(k)

\* C3: a negative node_count never yields a tree.
C3_NegativeCountRejected == node_count.neg => ~DecodeSucceeded

\* The footer of the file as the format lays it out, read off the bytes.
FooterOk ==
    /\ Len(payload) >= 8
    /\ SubSeq(payload, Len(payload) - 3, Len(payload)) = ENOD
FooterByte(k) == payload[Len(payload) - 8 + k]
TreeSigOk ==
    /\ FooterOk
    /\ FooterByte(3) = 0 /\ FooterByte(4) = 0
    /\ FooterByte(1) + 256 * FooterByte(2) + 4 <= Len(payload)
    /\ SubSeq(payload, FooterByte(1) + 256 * FooterByte(2) + 1,
              FooterByte(1) + 256 * FooterByte(2) + 4) = EDON

\* C4: unless the file ends in ENOD and EDON stands at tree_offset, decoding
\* fails: no node_count and no record is read, no tree is returned, and the
\* failure message is what gets shown.
C4_SignaturesRequired ==
    ~TreeSigOk =>
        /\ pc \in {"start", "fail", "done"}
        /\ nodes = <<>>
        /\ ~ret.ok
        /\ pc = "done" => inner_text.msg = "Could not load save"

\* A file with the right footer but no EDON at tree_offset has failed.
C4_Witness ==
    /\ pc = "done" /\ FooterOk /\ ~TreeSigOk
    /\ inner_text.msg = "Could not load save"

\* C5: a failed parse leaves no nodes, and a returned tree has exactly
\* node_count nodes.
C5_AllOrNothing ==
    /\ pc = "fail" => nodes = <<>>
    /\ DecodeSucceeded =>
          /\ ~node_count.neg /\ node_count.hi = 0
          /\ Len(ret.val) = node_count.lo

\* C9: on a tree with valid links and consistent sizes every report line
\* gives the node's name, total_bytes = data_size and own_bytes = data_size
\* less the sizes of exactly its immediate children, nothing panics, and
\* what is shown is one line per node in node order.
C9_Accounting ==
    (DecodeSucceeded /\ AllLinksValid /\ ChainsEnd
        /\ \A k \in 1..Len(nodes) : Consistent(k)) =>
        /\ pc \notin Panics
        /\ \A k \in 1..Len(txt) :
              /\ txt[k].name = nodes[k].name
              /\ txt[k].total_bytes = nodes[k].data_size
              /\ AddsUpTo(txt[k].own_bytes, ChildTotal(k), nodes[k].data_size)
              /\ nodes[k].child_idx = -1 => txt[k].own_bytes = nodes[k].data_size
        /\ pc = "report" => Len(txt) = idx
        /\ pc = "done" => /\ inner_text = [msg |-> "report", lines |-> txt]
                          /\ Len(txt) = Len(nodes)

\* A node of 100 bytes with two children of 20 bytes, one of which has a
\* child of its own, has been reported with 60 own bytes.
C9_Witness ==
    /\ pc = "done" /\ DecodeSucceeded /\ AllLinksValid
    /\ \A k \in 1..Len(nodes) : Consistent(k)
    /\ \E k \in 1..Len(nodes) :
          /\ Len(Children(k)) = 2
          /\ nodes[k].data_size = U32Of(100)
          /\ inner_text.lines[k].own_bytes = U32Of(60)
          /\ \E c \in 1..Len(nodes) : nodes[c].child_idx # -1 /\ c # k

\* C10: the task comes to an end on every file.
C10_Terminates == <>(pc \in {"done"} \cup Panics)

=============================================================================
